---- MODULE Spec2Model ----
(***************************************************************************)
(* A model of mortimint's log-entry engine (file.go, and the FileMeta      *)
(* table): process() splits a file into entries, processEntry() matches    *)
(* the prefix and starts the tokenizer, processEntryTokens() walks the     *)
(* token stream recursively, emitTokLits() turns the accumulated tokens    *)
(* of a level into emitEntryPart calls and Dictionary registrations.       *)
(*                                                                         *)
(* Strings are sequences of one-character strings, so that trimming,       *)
(* joining, prefix tests and regular-expression matches are computed.      *)
(***************************************************************************)
EXTENDS Integers, Sequences, FiniteSets, TLC

\* ------------------------------------------------------------------
\* Bounds of the model.

\* Longest token stream enumerated for one entry.
MaxToks == 4

\* Longest name enumerated for cleanseName.
MaxNameLen == 3

\* ------------------------------------------------------------------
\* String helpers (package strings of the Go library, as used here).

RECURSIVE TrimLeft(_, _)
TrimLeft(s, cutset) ==
  IF s # <<>> /\ Head(s) \in cutset THEN TrimLeft(Tail(s), cutset) ELSE s

RECURSIVE TrimRight(_, _)
TrimRight(s, cutset) ==
  IF s # <<>> /\ s[Len(s)] \in cutset
    THEN TrimRight(SubSeq(s, 1, Len(s) - 1), cutset)
    ELSE s

\* strings.Trim(s, cutset)
Trim(s, cutset) == TrimRight(TrimLeft(s, cutset), cutset)

\* strings.Join(a, sep)
RECURSIVE Join(_, _)
Join(a, sep) ==
  IF a = <<>> THEN <<>>
  ELSE IF Len(a) = 1 THEN a[1]
  ELSE a[1] \o sep \o Join(Tail(a), sep)

\* strings.IndexAny(s, chars) >= 0
IndexAnyFound(s, chars) == \E i \in 1..Len(s) : s[i] \in chars

\* strings.HasPrefix(s, prefix)
HasPrefix(s, prefix) ==
  Len(s) >= Len(prefix) /\ SubSeq(s, 1, Len(prefix)) = prefix

\* strings.Split(s, " ")
RECURSIVE SplitSpace(_)
SplitSpace(s) ==
  IF \A i \in 1..Len(s) : s[i] # " " THEN <<s>>
  ELSE LET k == CHOOSE i \in 1..Len(s) :
                  s[i] = " " /\ \A j \in 1..(i - 1) : s[j] # " "
       IN <<SubSeq(s, 1, k - 1)>> \o SplitSpace(SubSeq(s, k + 1, Len(s)))

Digits == {"0", "1", "2", "3", "4", "5", "6", "7", "8", "9"}

\* re_int.MatchString(s), re_int = `\d+`: the pattern is not anchored, so it
\* matches whenever s holds a run of one or more digits anywhere.
re_int_MatchString(s) == \E i \in 1..Len(s) : s[i] \in Digits

\* ------------------------------------------------------------------
\* Tokens of go/token, as far as file.go tells them apart.

\* token.Token.String(): the operator's text, or the class name of a literal.
TokString(tok) ==
  CASE tok = "IDENT" -> <<"I", "D", "E", "N", "T">>
    [] tok = "INT" -> <<"I", "N", "T">>
    [] tok = "FLOAT" -> <<"F", "L", "O", "A", "T">>
    [] tok = "CHAR" -> <<"C", "H", "A", "R">>
    [] tok = "STRING" -> <<"S", "T", "R", "I", "N", "G">>
    [] tok = "ASSIGN" -> <<"=">>
    [] tok = "LPAREN" -> <<"(">>
    [] tok = "RPAREN" -> <<")">>
    [] tok = "LBRACK" -> <<"[">>
    [] tok = "RBRACK" -> <<"]">>
    [] tok = "LBRACE" -> <<"{">>
    [] tok = "RBRACE" -> <<"}">>
    [] tok = "ADD" -> <<"+">>
    [] tok = "SUB" -> <<"-">>
    [] tok = "MUL" -> <<"*">>
    [] tok = "QUO" -> <<"/">>
    [] tok = "COLON" -> <<":">>
    [] tok = "COMMA" -> <<",">>
    [] tok = "PERIOD" -> <<".">>
    [] tok = "SEMICOLON" -> <<";">>
    [] tok = "SHL" -> <<"<", "<">>
    [] tok = "SHR" -> <<">", ">">>

levelDelta ==
  [LPAREN |-> 1, RPAREN |-> -1,
   LBRACK |-> 1, RBRACK |-> -1,
   LBRACE |-> 1, RBRACE |-> -1,
   CHAR |-> 0, INT |-> 0, FLOAT |-> 0, STRING |-> 0,
   ADD |-> 0, SUB |-> 0, MUL |-> 0, QUO |-> 0,
   COLON |-> 0, COMMA |-> 0, PERIOD |-> 0, SEMICOLON |-> 0]

\* deltaExists of `delta, deltaExists := levelDelta[tok]`
DeltaExists(tok) == tok \in DOMAIN levelDelta

\* delta of the same lookup: the zero value when the key is absent.
Delta(tok) == IF DeltaExists(tok) THEN levelDelta[tok] ELSE 0

skipToken == {"SHL", "SHR"}

\* tokenLitString(tok, lit)
tokenLitString(tok, lit) == IF lit # <<>> THEN lit ELSE TokString(tok)

\* A tokLit{tok, lit, emitted}.
TokLit(tok, lit) == [tok |-> tok, lit |-> lit, emitted |-> FALSE]

\* nameFromTokLits(tokLits): the literal of the last IDENT or STRING.
nameFromTokLits(tokLits) ==
  LET S == {i \in 1..Len(tokLits) : tokLits[i].tok \in {"IDENT", "STRING"}}
  IN IF S = {} THEN <<>>
     ELSE tokLits[CHOOSE i \in S : \A j \in S : j <= i].lit

\* cleanseName(name)
cleanseName(name) ==
  LET n == Trim(name, {" ", "\t", "\n", "\""})
  IN IF \/ IndexAnyFound(n, {"<", ">", "/", " "})
        \/ n = <<"t", "r", "u", "e">>
        \/ n = <<"f", "a", "l", "s", "e">>
        \/ n = <<"o", "k">>
        \/ n = <<"p", "i", "d">>
        \/ n = <<"u", "u", "i", "d">>
        \/ HasPrefix(n, <<"0", "x">>)
        \/ re_int_MatchString(n)
       THEN <<>>
       ELSE n

\* ------------------------------------------------------------------
\* emitTokLits: the calls a level makes to run.emitEntryPart and to
\* dict.AddDictEntry.  A call is recorded with its arguments; lvl, idx and
\* call tell which level, which accumulated token (0: none) and which
\* emitTokLits call made it.

StringType == <<"S", "T", "R", "I", "N", "G">>

EmitOut(recs, dict) == [recs |-> recs, dict |-> dict]

\* run.emitEntryPart(..., partKind, path, name, valType, val, free)
emitEntryPart(out, partKind, path, name, valType, val, free, lvl, idx, call) ==
  [out EXCEPT !.recs = Append(@,
     [kind |-> partKind, path |-> path, name |-> name, valType |-> valType,
      val |-> val, free |-> free, lvl |-> lvl, idx |-> idx, call |-> call])]

\* dict.AddDictEntry(kind, name, val)
AddDictEntry(out, kind, name, val) ==
  [out EXCEPT !.dict = Append(@, [kind |-> kind, name |-> name, val |-> val])]

\* The free-text value of a record: the run s joined and trimmed.
FreeText(s) == Trim(Join(s, <<" ">>), {"\t", "\n", " ", ".", ":", ","})

\* emitName with the registration left out.
emitNameNoDict(out, namePath, name, tokLit, lvl, idx, call) ==
  IF name # <<>>
    THEN emitEntryPart(out, "VALS", namePath, name, TokString(tokLit.tok),
                       tokLit.lit, FALSE, lvl, idx, call)
    ELSE out

\* Lines 280-286: the Dictionary registration and the VALS record.
emitName(out, namePath, name, tokLit, lvl, idx, call) ==
  IF name # <<>>
    THEN emitEntryPart(
           AddDictEntry(out, TokString(tokLit.tok), name, tokLit.lit),
           "VALS", namePath, name, TokString(tokLit.tok), tokLit.lit, FALSE,
           lvl, idx, call)
    ELSE out

\* Lines 271-287: the name of the token at index i (1-based) and its record.
emitVal(out, path, tokLits, i, lvl, call) ==
  LET name == cleanseName(nameFromTokLits(SubSeq(tokLits, 1, i - 1)))
      parts == SplitSpace(name)
  IN IF name = <<>> THEN out
     ELSE IF Len(path) <= 0
       THEN emitName(out, SubSeq(parts, 1, Len(parts) - 1), parts[Len(parts)],
                     tokLits[i], lvl, i, call)
       ELSE emitName(out, path, name, tokLits[i], lvl, i, call)

\* Lines 254-288: the loop over tokLits[i..]; s is the loop's run of strings,
\* which the loop resets and never appends to.  The loop marks its own copy
\* of the tokLit as emitted, not the element of the slice.
RECURSIVE emitLoop(_, _, _, _, _, _, _)
emitLoop(out, path, tokLits, i, s, lvl, call) ==
  IF i > Len(tokLits) THEN [out |-> out, s |-> s]
  ELSE IF tokLits[i].emitted
    THEN emitLoop(out, path, tokLits, i + 1, s, lvl, call)
  ELSE LET mids == emitEntryPart(out, "MIDS", path, <<>>, StringType,
                                 FreeText(s), TRUE, lvl, i, call)
       IN emitLoop(emitVal(mids, path, tokLits, i, lvl, call),
                   path, tokLits, i + 1, <<>>, lvl, call)

\* emitTokLits walking from the first token instead of from startAt.
emitTokLitsAll(out, path, tokLits, startAt, lvl, call) ==
  LET l == emitLoop(out, path, tokLits, 1, <<>>, lvl, call)
  IN [out |-> emitEntryPart(l.out, "ENDS", path, <<>>, StringType,
                            FreeText(l.s), TRUE, lvl, 0, call),
      ret |-> Len(tokLits)]

\* emitTokLits(..., path, tokLits, startAt): out extended by the calls made,
\* and the returned cursor len(tokLits).
emitTokLits(out, path, tokLits, startAt, lvl, call) ==
  LET l == emitLoop(out, path, tokLits, startAt + 1, <<>>, lvl, call)
  IN [out |-> emitEntryPart(l.out, "ENDS", path, <<>>, StringType,
                            FreeText(l.s), TRUE, lvl, 0, call),
      ret |-> Len(tokLits)]

\* ------------------------------------------------------------------
\* processEntryTokens: one activation per nesting level.  A frame holds the
\* activation's path, tokLits and emitted; lvl numbers the activations.

\* An activation of processEntryTokens: path is its slice path, path[0:len]
\* of the array that every slice made from processEntry's
\* make([]string, 0, 20) shares (the streams enumerated nest fewer than 20
\* levels, so append never allocates another array).
Frame(lvl, path) == [lvl |-> lvl, path |-> path, tokLits |-> <<>>, emitted |-> 0]

Slice(len) == [len |-> len]

\* The strings of a slice over the array.
pathOf(array, path) == SubSeq(array, 1, path.len)

\* appendPath that writes over the last string of the slice.
appendPathOverLast(array, path, pathPart) ==
  IF path.len = 0
    THEN [array |-> IF array = <<>> THEN <<pathPart>> ELSE [array EXCEPT ![1] = pathPart],
          path |-> Slice(1)]
  ELSE [array |-> [array EXCEPT ![path.len] = pathPart], path |-> path]

\* Line 213: append(pathSub, pathPart) writes the string after the last of
\* the slice, in the shared array, and returns the longer slice.
appendPath(array, path, pathPart) ==
  [array |-> [k \in 1..(IF Len(array) > path.len THEN Len(array) ELSE path.len + 1) |->
                IF k = path.len + 1 THEN pathPart ELSE array[k]],
   path |-> Slice(path.len + 1)]

\* The state of one entry's tokenization: the scanner (toks, pos), the
\* activations of processEntryTokens, and the calls made so far.
TokInit(toks) ==
  [toks |-> toks, pos |-> 0, stack |-> <<Frame(1, Slice(0))>>, array |-> <<>>,
   recs |-> <<>>, dict |-> <<>>, pc |-> "run", nextLvl |-> 2, calls |-> 0,
   eof |-> FALSE]

Top(st) == st.stack[Len(st.stack)]

\* The token s.Scan() returns next; the scanner returns EOF ever after the end.
ScanTok(st) ==
  IF st.pos < Len(st.toks) THEN st.toks[st.pos + 1]
  ELSE [tok |-> "EOF", lit |-> <<>>]

ReplaceTop(st, f) == [st.stack EXCEPT ![Len(st.stack)] = f]

\* Lines 200-202, 221-222 and 245: break, the final emitTokLits, return.
returnLevel(st, pos, eof) ==
  LET top == Top(st)
      e == emitTokLits(EmitOut(st.recs, st.dict), pathOf(st.array, top.path),
                       top.tokLits, top.emitted, top.lvl, st.calls + 1)
  IN [st EXCEPT !.pos = pos, !.eof = eof,
                !.stack = SubSeq(st.stack, 1, Len(st.stack) - 1),
                !.recs = e.out.recs, !.dict = e.out.dict,
                !.calls = st.calls + 1,
                !.pc = IF Len(st.stack) = 1 THEN "done" ELSE "run"]

\* skipLevel that keeps the token.
skipLevelKept(st) ==
  [st EXCEPT !.pos = st.pos + 1,
             !.stack = [st.stack EXCEPT ![Len(st.stack)].tokLits =
                          Append(@, TokLit(ScanTok(st).tok, ScanTok(st).lit))]]

\* Lines 204-206.
skipLevel(st) == [st EXCEPT !.pos = st.pos + 1]

\* openLevel without the recursion: the open token is passed over.
openLevelFlat(st) == [st EXCEPT !.pos = st.pos + 1]

\* Lines 209-220: flush this level, recurse into the nested one.
openLevel(st) ==
  LET top == Top(st)
      pathPart == nameFromTokLits(top.tokLits)
      pathSub == IF pathPart # <<>> THEN appendPath(st.array, top.path, pathPart)
                 ELSE [array |-> st.array, path |-> top.path]
      e == emitTokLits(EmitOut(st.recs, st.dict), pathOf(pathSub.array, top.path),
                       top.tokLits, top.emitted, top.lvl, st.calls + 1)
  IN [st EXCEPT !.pos = st.pos + 1,
                !.array = pathSub.array,
                !.stack = Append(ReplaceTop(st, [top EXCEPT !.emitted = e.ret]),
                                 Frame(st.nextLvl, pathSub.path)),
                !.nextLvl = st.nextLvl + 1,
                !.recs = e.out.recs, !.dict = e.out.dict,
                !.calls = st.calls + 1]

\* Lines 227-231: the new token is merged into the previous tokLit.
canMerge(tokLits, tok) ==
  /\ ~DeltaExists(tok)
  /\ Len(tokLits) > 0
  /\ ~tokLits[Len(tokLits)].emitted
  /\ ~DeltaExists(tokLits[Len(tokLits)].tok)

\* Lines 232-236.
mergeTok(st) ==
  LET top == Top(st)
      t == ScanTok(st)
      prev == top.tokLits[Len(top.tokLits)]
      lit == tokenLitString(prev.tok, prev.lit) \o <<" ">> \o tokenLitString(t.tok, t.lit)
  IN [st EXCEPT !.pos = st.pos + 1,
                !.stack = ReplaceTop(st,
                   [top EXCEPT !.tokLits[Len(top.tokLits)].lit = lit])]

\* Line 241.
appendTok(st) ==
  LET top == Top(st)
      t == ScanTok(st)
  IN [st EXCEPT !.pos = st.pos + 1,
                !.stack = ReplaceTop(st,
                   [top EXCEPT !.tokLits = Append(@, TokLit(t.tok, t.lit))])]

\* One iteration of the loop of lines 198-243, in the innermost activation.
processEntryTokens(st) ==
  LET t == ScanTok(st)
  IN IF t.tok = "EOF" THEN returnLevel(st, st.pos, TRUE)
     ELSE IF t.tok \in skipToken THEN skipLevel(st)
     ELSE IF Delta(t.tok) > 0 THEN openLevel(st)
     ELSE IF Delta(t.tok) < 0 THEN returnLevel(st, st.pos + 1, st.eof)
     ELSE IF canMerge(Top(st).tokLits, t.tok) THEN mergeTok(st)
     ELSE appendTok(st)

\* The whole call of processEntryTokens made by processEntry.
RECURSIVE runEntryTokens(_)
runEntryTokens(st) ==
  IF st.pc = "done" THEN st ELSE runEntryTokens(processEntryTokens(st))

\* ------------------------------------------------------------------
\* The token streams enumerated.

Tk(tok, lit) == [tok |-> tok, lit |-> lit]

TokAlphabet ==
  {Tk("IDENT", <<"a">>), Tk("ASSIGN", <<>>), Tk("INT", <<"1">>),
   Tk("STRING", <<"\"", "h", "\"">>), Tk("COMMA", <<>>),
   Tk("LPAREN", <<>>), Tk("RPAREN", <<>>), Tk("SHL", <<>>)}

TokStreams == UNION {[1..n -> TokAlphabet] : n \in 0..MaxToks}

\* The scanner's tokens for the entry body  foo(bar=1, baz="hi")  and the
\* newline processEntry appends, which the scanner turns into a semicolon.
ScenarioB ==
  <<Tk("IDENT", <<"f", "o", "o">>), Tk("LPAREN", <<>>),
    Tk("IDENT", <<"b", "a", "r">>), Tk("ASSIGN", <<>>), Tk("INT", <<"1">>),
    Tk("COMMA", <<>>),
    Tk("IDENT", <<"b", "a", "z">>), Tk("ASSIGN", <<>>),
    Tk("STRING", <<"\"", "h", "i", "\"">>), Tk("RPAREN", <<>>),
    Tk("SEMICOLON", <<"\n">>)>>

\* The scanner's tokens for the entry body  a("h"() a())  and the newline:
\* two nested levels, one after the other, inside a nested level.
NestedSiblings ==
  <<Tk("IDENT", <<"a">>), Tk("LPAREN", <<>>),
    Tk("STRING", <<"\"", "h", "\"">>), Tk("LPAREN", <<>>), Tk("RPAREN", <<>>),
    Tk("IDENT", <<"a">>), Tk("LPAREN", <<>>), Tk("RPAREN", <<>>),
    Tk("RPAREN", <<>>), Tk("SEMICOLON", <<"\n">>)>>

\* ------------------------------------------------------------------
\* The lines of a file.  A line is known by what the FileMeta's functions
\* return on it: start is EntryStart(line), pre is the end of EntryRE's match
\* on the line (matchIndex[1]; 0 when EntryRE does not match), len is
\* len(line).

MaxLines == 4
MaxHeader == 2

Line(start, pre, len) == [start |-> start, pre |-> pre, len |-> len]

Lines ==
  {Line(FALSE, 0, 0), Line(FALSE, 0, 2), Line(TRUE, 1, 2), Line(TRUE, 0, 1),
   Line(FALSE, 1, 1)}

\* The token streams the scanner returns for the entries of a file.
EntryTokStreams ==
  {<<>>, <<Tk("IDENT", <<"a">>), Tk("INT", <<"1">>)>>}

\* ------------------------------------------------------------------
VARIABLES
  tk,                \* the tokenization of one entry (processEntryTokens)
  cn,                \* a call of cleanseName: its argument and result
  fmeta,             \* p.fmeta: HeaderSize, and whether EntryStart is nil
  EmitOrig,          \* p.run.EmitOrig
  file,              \* the lines scanner.Scan() has returned so far
  pc,                \* where process() is: "open", "scan" or "done"
  err,               \* what process() returns
  currLine, currOffset,
  entryStartOffset, entryStartLine, entryLines,
  run,               \* the calls made on p.run, p.dict and stdout
  px,                \* a call of processEntry's prefix extraction
  cl,                \* a call of a FileMeta's Cleanser
  m,                 \* p.run.m: the file processor holding it, or 0
  fps,               \* the file processors that share one Run
  stdout             \* what the file processors have written

procVars ==
  <<fmeta, EmitOrig, file, pc, err, currLine, currOffset,
    entryStartOffset, entryStartLine, entryLines, run>>

auxVars == <<px, cl, m, fps, stdout>>

vars == <<tk, cn, procVars, auxVars>>

TokIdle == [TokInit(<<>>) EXCEPT !.pc = "idle"]
CnIdle == [name |-> <<>>, out |-> <<>>, pc |-> "idle"]
RunInit == [printed |-> <<>>, full |-> <<>>, parts |-> <<>>, dict |-> <<>>,
            entries |-> <<>>]

PxIdle == [line |-> <<>>, pc |-> "idle"]
ClIdle == [buf |-> <<>>, pc |-> "idle"]

ParIdle == m = 0 /\ fps = <<>> /\ stdout = <<>>

ProcIdle ==
  /\ fmeta = [HeaderSize |-> 0, EntryStartNil |-> TRUE]
  /\ EmitOrig = <<>>
  /\ file = <<>> /\ pc = "idle" /\ err = "nil"
  /\ currLine = 0 /\ currOffset = 0
  /\ entryStartOffset = 0 /\ entryStartLine = 0 /\ entryLines = <<>>
  /\ run = RunInit

\* ------------------------------------------------------------------
\* The specification of one entry's tokenization, scan by scan.
TokensInit ==
  /\ \E toks \in TokStreams \cup {ScenarioB, NestedSiblings} : tk = TokInit(toks)
  /\ cn = CnIdle
  /\ ProcIdle
  /\ px = PxIdle /\ cl = ClIdle /\ ParIdle

ScanEOF ==
  /\ tk.pc = "run" /\ ScanTok(tk).tok = "EOF"
  /\ tk' = processEntryTokens(tk)
  /\ UNCHANGED <<cn, procVars, auxVars>>

ScanSkip ==
  /\ tk.pc = "run" /\ ScanTok(tk).tok \in skipToken
  /\ tk' = processEntryTokens(tk)
  /\ UNCHANGED <<cn, procVars, auxVars>>

ScanOpen ==
  /\ tk.pc = "run" /\ ScanTok(tk).tok \in {"LPAREN", "LBRACK", "LBRACE"}
  /\ tk' = processEntryTokens(tk)
  /\ UNCHANGED <<cn, procVars, auxVars>>

ScanClose ==
  /\ tk.pc = "run" /\ ScanTok(tk).tok \in {"RPAREN", "RBRACK", "RBRACE"}
  /\ tk' = processEntryTokens(tk)
  /\ UNCHANGED <<cn, procVars, auxVars>>

ScanMerge ==
  /\ tk.pc = "run"
  /\ ScanTok(tk).tok \notin {"EOF"} \cup skipToken
  /\ Delta(ScanTok(tk).tok) = 0
  /\ canMerge(Top(tk).tokLits, ScanTok(tk).tok)
  /\ tk' = processEntryTokens(tk)
  /\ UNCHANGED <<cn, procVars, auxVars>>

ScanAppend ==
  /\ tk.pc = "run"
  /\ ScanTok(tk).tok \notin {"EOF"} \cup skipToken
  /\ Delta(ScanTok(tk).tok) = 0
  /\ ~canMerge(Top(tk).tokLits, ScanTok(tk).tok)
  /\ tk' = processEntryTokens(tk)
  /\ UNCHANGED <<cn, procVars, auxVars>>

TokensNext == ScanEOF \/ ScanSkip \/ ScanOpen \/ ScanClose \/ ScanMerge \/ ScanAppend

SpecTokens == TokensInit /\ [][TokensNext]_vars

\* ------------------------------------------------------------------
\* cleanseName on its own.

NameAlphabet == {"a", "1", "0", "x", " ", "\"", "<", "o", "k"}

Names ==
  UNION {[1..n -> NameAlphabet] : n \in 0..MaxNameLen}
    \cup {<<"t", "r", "u", "e">>, <<"f", "a", "l", "s", "e">>, <<"p", "i", "d">>,
          <<"u", "u", "i", "d">>, <<"t", "r", "u", "e", "r">>, <<"a", "/", "b">>,
          <<"a", ">">>, <<"\t", "p", "i", "d", "\n">>, <<"b", "a", "r">>}

CleanseInit ==
  /\ \E name \in Names : cn = [name |-> name, out |-> <<>>, pc |-> "call"]
  /\ tk = TokIdle
  /\ ProcIdle
  /\ px = PxIdle /\ cl = ClIdle /\ ParIdle

CleanseCall ==
  /\ cn.pc = "call"
  /\ cn' = [cn EXCEPT !.out = cleanseName(cn.name), !.pc = "ret"]
  /\ UNCHANGED <<tk, procVars, auxVars>>

CleanseNext == CleanseCall

SpecCleanse == CleanseInit /\ [][CleanseNext]_vars

\* ------------------------------------------------------------------
\* processEntry and process.

\* strings.Join(lines, "\n"), and the Replace of "\n" by " " when EmitOrig
\* is "single": the lines with the separator between them.
RECURSIVE JoinLines(_, _)
JoinLines(lines, sep) ==
  IF lines = <<>> THEN <<>>
  ELSE IF Len(lines) = 1 THEN <<lines[1]>>
  ELSE <<lines[1], sep>> \o JoinLines(Tail(lines), sep)

linesJoined(lines, emitOrig) ==
  IF emitOrig = <<"s", "i", "n", "g", "l", "e">>
    THEN JoinLines(lines, " ")
    ELSE JoinLines(lines, "\n")

\* prefixMatches without the test of the match.
prefixMatchesAlways(firstLine) == TRUE

\* Line 113: EntryRE matched the first line.
prefixMatches(firstLine) == firstLine.pre > 0

\* Line 131: firstLine[matchIndex[1]:]
stripPrefix(firstLine) == [firstLine EXCEPT !.len = @ - firstLine.pre, !.pre = 0]

\* The emitEntryPart and AddDictEntry calls of an entry, with the entry's
\* startLine (an argument of emitEntryPart).
TagAll(recs, startLine) ==
  [k \in 1..Len(recs) |-> [startLine |-> startLine, rec |-> recs[k]]]

\* processEntry(startOffset, startLine, lines), toks being what the scanner
\* returns for the entry's buffer.
processEntry(r, emitOrig, startOffset, startLine, lines, toks) ==
  IF startLine <= 0 \/ Len(lines) <= 0 THEN r
  ELSE
    LET e == [startOffset |-> startOffset, startLine |-> startLine, lines |-> lines]
        r1 == [r EXCEPT !.entries = Append(@, e)]
        r2 == IF emitOrig # <<>>
                THEN [r1 EXCEPT !.printed = Append(@,
                        [startLine |-> startLine, text |-> linesJoined(lines, emitOrig)])]
                ELSE r1
        st == runEntryTokens(TokInit(toks))
    IN IF ~prefixMatches(lines[1]) THEN r2
       ELSE [r2 EXCEPT
               !.full = Append(@, [e EXCEPT !.lines[1] = stripPrefix(lines[1])]),
               !.parts = @ \o TagAll(st.recs, startLine),
               !.dict = @ \o TagAll(st.dict, startLine)]

\* isHeader with the comparison off by one.
isHeaderOffByOne(line, headerSize) == line < headerSize

\* Line 72: the line is one of the header.
isHeader(line, headerSize) == line <= headerSize

\* headerOffset without the advance.
headerOffsetSkipped(offset, lineStr) == offset

\* Line 73: the offset after a header line.
headerOffset(offset, lineStr) == offset + lineStr.len + 1

\* Line 77: the line starts an entry.
isBoundary(fm, lineStr) == fm.EntryStartNil \/ lineStr.start

EmitOrigs == {<<>>, <<"s", "i", "n", "g", "l", "e">>, <<"m", "u", "l", "t", "i">>}

ProcessInit ==
  /\ fmeta \in [HeaderSize : 0..MaxHeader, EntryStartNil : BOOLEAN]
  /\ EmitOrig \in EmitOrigs
  /\ file = <<>> /\ pc = "open" /\ err = "nil"
  /\ currLine = 0 /\ currOffset = 0
  /\ entryStartOffset = 0 /\ entryStartLine = 0 /\ entryLines = <<>>
  /\ run = RunInit
  /\ tk = TokIdle
  /\ cn = CnIdle
  /\ px = PxIdle /\ cl = ClIdle /\ ParIdle

\* Lines 50-59: os.Open succeeds.
OpenOk ==
  /\ pc = "open"
  /\ pc' = "scan"
  /\ UNCHANGED <<auxVars, tk, cn, fmeta, EmitOrig, file, err, currLine, currOffset,
                 entryStartOffset, entryStartLine, entryLines, run>>

\* Lines 50-53: os.Open fails, process returns the error.
OpenFail ==
  /\ pc = "open"
  /\ pc' = "done" /\ err' = "open"
  /\ UNCHANGED <<auxVars, tk, cn, fmeta, EmitOrig, file, currLine, currOffset,
                 entryStartOffset, entryStartLine, entryLines, run>>

\* Lines 68-75: a header line.
LineHeader ==
  /\ pc = "scan" /\ Len(file) < MaxLines
  /\ isHeader(currLine + 1, fmeta.HeaderSize)
  /\ \E lineStr \in Lines :
       /\ file' = Append(file, lineStr)
       /\ currLine' = currLine + 1
       /\ currOffset' = headerOffset(currOffset, lineStr)
  /\ UNCHANGED <<auxVars, tk, cn, fmeta, EmitOrig, pc, err,
                 entryStartOffset, entryStartLine, entryLines, run>>

\* Lines 68-86: a line that starts an entry; the one before is processed.
LineStart ==
  /\ pc = "scan" /\ Len(file) < MaxLines
  /\ ~isHeader(currLine + 1, fmeta.HeaderSize)
  /\ \E lineStr \in Lines, toks \in EntryTokStreams :
       /\ isBoundary(fmeta, lineStr)
       /\ file' = Append(file, lineStr)
       /\ currLine' = currLine + 1
       /\ run' = processEntry(run, EmitOrig, entryStartOffset, entryStartLine,
                              entryLines, toks)
       /\ entryStartOffset' = currOffset
       /\ entryStartLine' = currLine + 1
       /\ entryLines' = <<lineStr>>
       /\ currOffset' = currOffset + lineStr.len + 1
  /\ UNCHANGED <<auxVars, tk, cn, fmeta, EmitOrig, pc, err>>

\* Lines 68-86: a line that continues the entry being accumulated.
LineCont ==
  /\ pc = "scan" /\ Len(file) < MaxLines
  /\ ~isHeader(currLine + 1, fmeta.HeaderSize)
  /\ \E lineStr \in Lines :
       /\ ~isBoundary(fmeta, lineStr)
       /\ file' = Append(file, lineStr)
       /\ currLine' = currLine + 1
       /\ entryLines' = Append(entryLines, lineStr)
       /\ currOffset' = currOffset + lineStr.len + 1
  /\ UNCHANGED <<auxVars, tk, cn, fmeta, EmitOrig, pc, err,
                 entryStartOffset, entryStartLine, run>>

\* ScanEnd without the processEntry of line 89.
ScanEndNoFlush(e) ==
  /\ pc = "scan"
  /\ pc' = "done" /\ err' = e
  /\ UNCHANGED <<auxVars, tk, cn, fmeta, EmitOrig, file, currLine, currOffset,
                 entryStartOffset, entryStartLine, entryLines, run>>

\* Lines 68, 89-91: Scan() returns false; the last entry is processed and
\* scanner.Err() returned: nil at the end of the file, the error otherwise.
ScanEnd(e) ==
  /\ pc = "scan"
  /\ \E toks \in EntryTokStreams :
       run' = processEntry(run, EmitOrig, entryStartOffset, entryStartLine,
                           entryLines, toks)
  /\ pc' = "done" /\ err' = e
  /\ UNCHANGED <<auxVars, tk, cn, fmeta, EmitOrig, file, currLine, currOffset,
                 entryStartOffset, entryStartLine, entryLines>>

ScanEndOfFile == ScanEnd("nil")
ScanError == ScanEnd("read")

ProcessNext ==
  \/ OpenOk \/ OpenFail
  \/ LineHeader \/ LineStart \/ LineCont
  \/ ScanEndOfFile \/ ScanError

SpecProcess == ProcessInit /\ [][ProcessNext]_vars

\* ------------------------------------------------------------------
\* The prefix of an entry's first line: EntryRE and lines 110-131 of
\* processEntry, on the characters of the line.

\* Longest run of fractional-second digits enumerated.
MaxFrac == 4

\* \s and \S of the regular expressions.
IsSpace(c) == c \in {" ", "\t", "\n", "\r", "\f"}

\* n digits at s[from..from+n-1]: \d\d, \d\d\d\d.
DigitsAt(s, from, n) ==
  /\ from + n - 1 <= Len(s)
  /\ \A k \in from..(from + n - 1) : s[k] \in Digits

\* The end of the longest run of digits (\d+) that starts at from, from - 1
\* when there is none.
RECURSIVE DigitRunEnd(_, _)
DigitRunEnd(s, from) ==
  IF from <= Len(s) /\ s[from] \in Digits THEN DigitRunEnd(s, from + 1)
  ELSE from - 1

\* The same for \S+.
RECURSIVE NonSpaceRunEnd(_, _)
NonSpaceRunEnd(s, from) ==
  IF from <= Len(s) /\ ~IsSpace(s[from]) THEN NonSpaceRunEnd(s, from + 1)
  ELSE from - 1

\* re_usual.FindStringSubmatchIndex(s), re_usual being
\*   ^ ymd hms -\S+\s(?P<level>\S+)\s
\* with ymd = \d\d\d\d-\d\d-\d\d and hms = T\d\d:\d\d:\d\d\.(?P<SSSS>\d+).
\* Each repetition is followed by a character outside its class, so the
\* greedy match is the only one.
re_usual_Match(s) ==
  LET fe == DigitRunEnd(s, 21)
      ze == NonSpaceRunEnd(s, fe + 2)
      le == NonSpaceRunEnd(s, ze + 2)
      ok == /\ Len(s) >= 20
            /\ DigitsAt(s, 1, 4) /\ s[5] = "-" /\ DigitsAt(s, 6, 2)
            /\ s[8] = "-" /\ DigitsAt(s, 9, 2)
            /\ s[11] = "T" /\ DigitsAt(s, 12, 2) /\ s[14] = ":"
            /\ DigitsAt(s, 15, 2) /\ s[17] = ":" /\ DigitsAt(s, 18, 2)
            /\ s[20] = "."
            /\ fe >= 21
            /\ fe + 1 <= Len(s) /\ s[fe + 1] = "-"
            /\ ze >= fe + 2
            /\ ze + 1 <= Len(s) /\ IsSpace(s[ze + 1])
            /\ le >= ze + 2
            /\ le + 1 <= Len(s) /\ IsSpace(s[le + 1])
  IN IF ~ok THEN [ok |-> FALSE]
     ELSE [ok |-> TRUE,
           year |-> SubSeq(s, 1, 4), month |-> SubSeq(s, 6, 7),
           day |-> SubSeq(s, 9, 10), HH |-> SubSeq(s, 12, 13),
           MM |-> SubSeq(s, 15, 16), SS |-> SubSeq(s, 18, 19),
           SSSS |-> SubSeq(s, 21, fe), level |-> SubSeq(s, ze + 2, le),
           end |-> le + 1]

\* len("2016-04-19T23:10:31.209")
TsLen == 23

\* Lines 117-121: the expansion of the template and its truncation.
entryTs(mt) ==
  LET ts == mt.year \o <<"-">> \o mt.month \o <<"-">> \o mt.day \o <<"T">>
              \o mt.HH \o <<":">> \o mt.MM \o <<":">> \o mt.SS \o <<".">> \o mt.SSSS
  IN IF Len(ts) > TsLen THEN SubSeq(ts, 1, TsLen) ELSE ts

LowerCase ==
  <<"a", "b", "c", "d", "e", "f", "g", "h", "i", "j", "k", "l", "m",
    "n", "o", "p", "q", "r", "s", "t", "u", "v", "w", "x", "y", "z">>
UpperCase ==
  <<"A", "B", "C", "D", "E", "F", "G", "H", "I", "J", "K", "L", "M",
    "N", "O", "P", "Q", "R", "S", "T", "U", "V", "W", "X", "Y", "Z">>

\* strings.ToUpper(s)
ToUpper(s) ==
  [k \in 1..Len(s) |->
     IF \E i \in 1..Len(LowerCase) : LowerCase[i] = s[k]
       THEN UpperCase[CHOOSE i \in 1..Len(LowerCase) : LowerCase[i] = s[k]]
       ELSE s[k]]

\* Lines 125-129.
entryLevel(mt) ==
  LET level == ToUpper(Trim(mt.level, {"[", "]"}))
  IN IF Len(level) > 4 /\ level # <<"D", "E", "B", "U", "G">>
       THEN SubSeq(level, 1, 4)
       ELSE level

\* Lines 110-131 for a FileMeta whose EntryRE is re_usual, which has no
\* module group: whether the first line matched, ts, module, level, and the
\* first line with the match stripped.
entryPrefix(firstLine) ==
  LET mt == re_usual_Match(firstLine)
  IN IF ~mt.ok
       THEN [matched |-> FALSE, ts |-> <<>>, module |-> <<>>, level |-> <<>>,
             rest |-> firstLine]
       ELSE [matched |-> TRUE, ts |-> entryTs(mt), module |-> <<>>,
             level |-> entryLevel(mt),
             rest |-> SubSeq(firstLine, mt.end + 1, Len(firstLine))]

\* The first lines enumerated.
DateTime ==
  <<"2", "0", "1", "6", "-", "0", "4", "-", "1", "4", "T",
    "1", "6", ":", "1", "0", ":", "0", "9">>

Fracs == UNION {[1..n -> {"4", "6"}] : n \in 0..MaxFrac}

Zone == <<"-", "0", "7", ":", "0", "0">>

Levels ==
  {<<"W", "A", "R", "N", "I", "N", "G">>, <<"[", "I", "n", "f", "o", "]">>,
   <<"D", "E", "B", "U", "G">>, <<>>}

Bodies == {<<>>, <<"x", " ", "y">>}

FirstLines ==
  {DateTime \o <<".">> \o frac \o Zone \o <<" ">> \o lvl \o <<" ">> \o body :
     frac \in Fracs, lvl \in Levels, body \in Bodies}
    \cup {<<>>, <<"x">>, DateTime, DateTime \o <<".", "4">> \o Zone}

PrefixInit ==
  /\ \E line \in FirstLines : px = [line |-> line, pc |-> "call"]
  /\ tk = TokIdle /\ cn = CnIdle /\ ProcIdle
  /\ cl = ClIdle /\ ParIdle

\* EntryRE matches: lines 112-131.
PrefixMatch ==
  /\ px.pc = "call"
  /\ entryPrefix(px.line).matched
  /\ px' = [line |-> px.line, pc |-> "ret", res |-> entryPrefix(px.line)]
  /\ UNCHANGED <<tk, cn, procVars, cl, m, fps, stdout>>

\* EntryRE does not match: lines 112-115.
PrefixMismatch ==
  /\ px.pc = "call"
  /\ ~entryPrefix(px.line).matched
  /\ px' = [line |-> px.line, pc |-> "ret", res |-> entryPrefix(px.line)]
  /\ UNCHANGED <<tk, cn, procVars, cl, m, fps, stdout>>

PrefixNext == PrefixMatch \/ PrefixMismatch

SpecPrefix == PrefixInit /\ [][PrefixNext]_vars

\* ------------------------------------------------------------------
\* Several fileProcessors sharing one Run: the emissions of processEntry
\* on the standard output.  m is the Run's mutex (0 when unlocked, the
\* holder otherwise), fps the position of each fileProcessor, stdout the
\* lines written so far.

\* The fileProcessors, the entries each processes, the lines of an entry.
ParProcs == 2
ParEntries == 1
ParLines == 2

\* tryLock without the test: Lock() that never waits.
tryLockAlways(mu) == TRUE

\* Line 105: p.run.m.Lock() returns only once the mutex is unlocked.
tryLock(mu) == mu = 0

\* Lines 100-103: the lines that fmt.Println(linesJoined) writes, one when
\* the "\n" were replaced by " ".
origLines(emitOrig) ==
  IF emitOrig = <<"s", "i", "n", "g", "l", "e">> THEN 1 ELSE ParLines

\* One line written to the standard output.
Written(p, e, part, k) == [fp |-> p, entry |-> e, part |-> part, line |-> k]

Fp(at, e, k) == [pc |-> at, entry |-> e, k |-> k]

ParInit ==
  /\ m = 0 /\ stdout = <<>>
  /\ fps = [p \in 1..ParProcs |-> Fp("entry", 1, 0)]
  /\ EmitOrig \in EmitOrigs
  /\ fmeta = [HeaderSize |-> 0, EntryStartNil |-> TRUE]
  /\ file = <<>> /\ pc = "idle" /\ err = "nil"
  /\ currLine = 0 /\ currOffset = 0
  /\ entryStartOffset = 0 /\ entryStartLine = 0 /\ entryLines = <<>>
  /\ run = RunInit
  /\ tk = TokIdle /\ cn = CnIdle /\ px = PxIdle /\ cl = ClIdle

ParUnchanged == UNCHANGED <<tk, cn, procVars, px, cl>>

\* Line 99: processEntry is entered; EmitOrig decides whether the original
\* lines are printed.
ParEntry(p) ==
  /\ fps[p].pc = "entry"
  /\ fps' = [fps EXCEPT ![p].pc = IF EmitOrig # <<>> THEN "lock" ELSE "full"]
  /\ UNCHANGED <<m, stdout>>
  /\ ParUnchanged

\* Line 105.
ParLock(p) ==
  /\ fps[p].pc = "lock"
  /\ tryLock(m)
  /\ m' = p
  /\ fps' = [fps EXCEPT ![p].pc = "print", ![p].k = 0]
  /\ UNCHANGED stdout
  /\ ParUnchanged

\* Line 106: fmt.Println(linesJoined), a line at a time.
ParPrint(p) ==
  /\ fps[p].pc = "print"
  /\ stdout' = Append(stdout, Written(p, fps[p].entry, "orig", fps[p].k + 1))
  /\ fps' = [fps EXCEPT ![p].k = @ + 1,
                        ![p].pc = IF fps[p].k + 1 >= origLines(EmitOrig)
                                    THEN "unlock" ELSE "print"]
  /\ UNCHANGED m
  /\ ParUnchanged

\* Line 107.
ParUnlock(p) ==
  /\ fps[p].pc = "unlock"
  /\ m' = 0
  /\ fps' = [fps EXCEPT ![p].pc = "full"]
  /\ UNCHANGED stdout
  /\ ParUnchanged

\* Lines 137-138: Run.emitEntryFull takes the mutex for the emission of
\* the entry.
ParFullLock(p) ==
  /\ fps[p].pc = "full"
  /\ m = 0
  /\ m' = p
  /\ fps' = [fps EXCEPT ![p].pc = "fullprint", ![p].k = 0]
  /\ UNCHANGED stdout
  /\ ParUnchanged

\* Run.emitEntryFull writes the line of the entry.
ParFullPrint(p) ==
  /\ fps[p].pc = "fullprint"
  /\ stdout' = Append(stdout, Written(p, fps[p].entry, "full", 1))
  /\ fps' = [fps EXCEPT ![p].k = 1, ![p].pc = "fullunlock"]
  /\ UNCHANGED m
  /\ ParUnchanged

\* Run.emitEntryFull releases the mutex; processEntry returns and the next
\* entry of the file, if any, is processed.
ParFullUnlock(p) ==
  /\ fps[p].pc = "fullunlock"
  /\ m' = 0
  /\ fps' = IF fps[p].entry < ParEntries
              THEN [fps EXCEPT ![p] = Fp("entry", fps[p].entry + 1, 0)]
              ELSE [fps EXCEPT ![p].pc = "done"]
  /\ UNCHANGED stdout
  /\ ParUnchanged

ParNext ==
  \E p \in 1..ParProcs :
    \/ ParEntry(p) \/ ParLock(p) \/ ParPrint(p) \/ ParUnlock(p)
    \/ ParFullLock(p) \/ ParFullPrint(p) \/ ParFullUnlock(p)

SpecPar == ParInit /\ [][ParNext]_vars

\* ------------------------------------------------------------------
\* The cleansers of the FileMetas, applied by processEntry (lines 139-148)
\* to the buffer of an entry.

\* Longest run of '=' enumerated on a side of a banner.
MaxBar == 8

\* `=======+`: six '=' and one or more.
EqualsBarMin == 7

\* isBar with bars of three '='.
isBarShort(n) == n >= 3

\* A run of n '=' matches `=======+`.
isBar(n) == n >= EqualsBarMin

\* The end of the longest run of '=' that starts at from, from - 1 when
\* there is none.
RECURSIVE EqualsRunEnd(_, _)
EqualsRunEnd(s, from) ==
  IF from <= Len(s) /\ s[from] = "=" THEN EqualsRunEnd(s, from + 1)
  ELSE from - 1

\* The same for [^=]+, which matches newlines too.
RECURSIVE NonEqualsRunEnd(_, _)
NonEqualsRunEnd(s, from) ==
  IF from <= Len(s) /\ s[from] # "=" THEN NonEqualsRunEnd(s, from + 1)
  ELSE from - 1

\* equals_bar_re.ReplaceAll(s, `"$1"`) from position i on: the leftmost
\* matches, none overlapping another.  A match starts where a run of '='
\* starts (a start inside the run has fewer '=' before the same text) and
\* each repetition, greedy, takes its whole run.
RECURSIVE equals_bar_ReplaceFrom(_, _)
equals_bar_ReplaceFrom(s, i) ==
  IF i > Len(s) THEN <<>>
  ELSE IF s[i] # "=" THEN <<s[i]>> \o equals_bar_ReplaceFrom(s, i + 1)
  ELSE
    LET ae == EqualsRunEnd(s, i)
        te == NonEqualsRunEnd(s, ae + 1)
        be == EqualsRunEnd(s, te + 1)
    IN IF isBar(ae - i + 1) /\ te >= ae + 1 /\ isBar(be - te)
         THEN <<"\"">> \o SubSeq(s, ae + 1, te) \o <<"\"">>
                \o equals_bar_ReplaceFrom(s, be + 1)
         ELSE SubSeq(s, i, ae) \o equals_bar_ReplaceFrom(s, ae + 1)

equals_bar_ReplaceAll(s) == equals_bar_ReplaceFrom(s, 1)

\* bytes.Index(s, sep) for a one-byte sep, counted from 1; 0 when absent.
Index(s, c) ==
  IF \E k \in 1..Len(s) : s[k] = c
    THEN CHOOSE k \in 1..Len(s) : s[k] = c /\ \A j \in 1..(k - 1) : s[j] # c
    ELSE 0

\* Lines 117-123: the first ']' is cleared when no '[' precedes it.
clearRbrack(s) ==
  LET rbrack == Index(s, "]")
      lbrack == Index(s, "[")
  IN IF rbrack >= 1 /\ (lbrack < 1 \/ rbrack < lbrack)
       THEN [s EXCEPT ![rbrack] = " "]
       ELSE s

\* Lines 130-139: ns_pid_re, re_addr, re_ymd_hms and re_uuid each need a
\* digit or a letter a-f to match; the buffers enumerated hold neither, and
\* ReplaceAll without a match returns its argument.
stringifyAll(s) == s

\* FileMetaNS.Cleanser
FileMetaNS_Cleanser(s) == stringifyAll(equals_bar_ReplaceAll(clearRbrack(s)))

\* bytes.Replace(s, old, new, -1) for a one-byte old.
RECURSIVE Replace(_, _, _)
Replace(s, old, new) ==
  IF s = <<>> THEN <<>>
  ELSE (IF Head(s) = old THEN new ELSE <<Head(s)>>) \o Replace(Tail(s), old, new)

\* FileMetas["ns_server.fts.log"].Cleanser
fts_Cleanser(s) == Replace(s, "\n", <<>>)

\* Lines 139-143: the buffer of an entry.
RECURSIVE entryBuf(_)
entryBuf(lines) ==
  IF lines = <<>> THEN <<>>
  ELSE Head(lines) \o <<"\n">> \o entryBuf(Tail(lines))

\* Lines 146-148.
cleansed(meta, buf) ==
  IF meta = "nil" THEN buf
  ELSE IF meta = "ns" THEN FileMetaNS_Cleanser(buf)
  ELSE fts_Cleanser(buf)

\* n times '='.
Bar(n) == [k \in 1..n |-> "="]

ProgressReport ==
  <<"P", "R", "O", "G", "R", "E", "S", "S", " ", "R", "E", "P", "O", "R", "T">>

\* The entries enumerated: a banner line, then possibly another line.
BannerTexts == {<<>>, ProgressReport, <<"P", "\n", "R">>}
BannerPres == {<<>>, <<"]", " ">>}
BannerPosts == {<<>>, <<" ", "[", "x", "]">>}
MoreLines == {<<>>, <<<<"x", " ", "y">>>>}

Banners ==
  [pre : BannerPres, a : 0..MaxBar, text : BannerTexts, b : 0..MaxBar,
   post : BannerPosts, more : MoreLines]

bannerLines(bn) ==
  <<bn.pre \o Bar(bn.a) \o bn.text \o Bar(bn.b) \o bn.post>> \o bn.more

CleanserInit ==
  /\ \E bn \in Banners : cl = [pc |-> "call", bn |-> bn, buf |-> entryBuf(bannerLines(bn))]
  /\ tk = TokIdle /\ cn = CnIdle /\ ProcIdle
  /\ px = PxIdle /\ ParIdle

CleanserCall(meta) ==
  /\ cl.pc = "call"
  /\ cl' = [pc |-> "ret", bn |-> cl.bn, meta |-> meta, in |-> cl.buf,
            buf |-> cleansed(meta, cl.buf)]
  /\ UNCHANGED <<tk, cn, procVars, px, m, fps, stdout>>

\* Line 146: the FileMeta has no Cleanser.
CleanserNil == CleanserCall("nil")
\* Line 147, the FileMeta being FileMetaNS.
CleanserNS == CleanserCall("ns")
\* Line 147, the FileMeta being that of ns_server.fts.log.
CleanserFts == CleanserCall("fts")

CleanserNext == CleanserNil \/ CleanserNS \/ CleanserFts

SpecCleanser == CleanserInit /\ [][CleanserNext]_vars

\* ------------------------------------------------------------------
\* Observations of the tokenization used by the properties below.

\* The recursion depth: activations of processEntryTokens below the first.
Depth == Len(tk.stack) - 1

\* Structural-open and structural-close tokens among those scanned so far.
Opens == Cardinality({i \in 1..tk.pos : Delta(tk.toks[i].tok) > 0})
Closes == Cardinality({i \in 1..tk.pos : Delta(tk.toks[i].tok) < 0})

\* The token is mergeable: its kind is absent from levelDelta.
Mergeable(tok) == ~DeltaExists(tok)

\* The previous accumulated token of the innermost level was emitted by a
\* flush of the level: it lies below the level's cursor.
PrevEmitted == Len(Top(tk).tokLits) <= Top(tk).emitted

\* A step that scans a token which is neither skipped nor structural.
ScansPlain ==
  /\ tk.pc = "run"
  /\ ScanTok(tk).tok \notin {"EOF"} \cup skipToken
  /\ Delta(ScanTok(tk).tok) = 0

Merged == Top(tk').tokLits # Top(tk).tokLits /\ Len(Top(tk').tokLits) = Len(Top(tk).tokLits)
Appended == Len(Top(tk').tokLits) = Len(Top(tk).tokLits) + 1

\* C3: a new mergeable token is merged into the previous accumulated token
\* exactly when that token is mergeable and was not yet emitted by a flush of
\* the level; after an emission it is appended as a new token; a literal-leaf
\* token is always appended and is never merged into.
C3_MergeRule ==
  [][ScansPlain =>
       LET t == ScanTok(tk).tok
           lits == Top(tk).tokLits
           prevOk == /\ Len(lits) > 0
                     /\ Mergeable(lits[Len(lits)].tok)
                     /\ ~PrevEmitted
       IN /\ (Mergeable(t) /\ prevOk) => Merged
          /\ ~(Mergeable(t) /\ prevOk) => Appended]_vars

\* The emitEntryPart calls made by the step.
NewRecs == SubSeq(tk'.recs, Len(tk.recs) + 1, Len(tk'.recs))

\* A step in which the innermost level calls emitTokLits.
Emits == ScanOpen \/ ScanEOF \/ ScanClose

\* The literals of the mergeable tokens among tokLits[from..to].
RECURSIVE MergeableLits(_, _, _)
MergeableLits(tokLits, from, to) ==
  IF from > to THEN <<>>
  ELSE (IF Mergeable(tokLits[from].tok)
          THEN <<tokenLitString(tokLits[from].tok, tokLits[from].lit)>>
          ELSE <<>>)
       \o MergeableLits(tokLits, from + 1, to)

\* The last literal-leaf index in startAt+1..i-1, or startAt when there is none.
PrevLeaf(tokLits, startAt, i) ==
  LET L == {k \in (startAt + 1)..(i - 1) : ~Mergeable(tokLits[k].tok)}
  IN IF L = {} THEN startAt ELSE CHOOSE k \in L : \A j \in L : j <= k

\* sub occurs in s as a run of consecutive characters.
Contains(s, sub) ==
  \E k \in 0..(Len(s) - Len(sub)) : SubSeq(s, k + 1, k + Len(sub)) = sub

\* C4: in emitTokLits the free-text record emitted just before a literal-leaf
\* token carries the trimmed, space-joined literals of the mergeable tokens
\* accumulated since the previous leaf, the trailing record carries the
\* remaining run, and so every mergeable token's literal appears in a
\* free-text record of its level.
C4_FreeTextCarriesRun ==
  [][Emits =>
       LET top == Top(tk)
           lits == top.tokLits
           n == Len(lits)
           new == NewRecs
       IN /\ \A i \in (top.emitted + 1)..n : ~Mergeable(lits[i].tok) =>
               \E k \in 1..Len(new) :
                 /\ new[k].kind = "MIDS" /\ new[k].idx = i
                 /\ new[k].val
                      = FreeText(MergeableLits(lits, PrevLeaf(lits, top.emitted, i) + 1, i - 1))
          /\ new[Len(new)].kind = "ENDS"
          /\ new[Len(new)].val
               = FreeText(MergeableLits(lits, PrevLeaf(lits, top.emitted, n + 1) + 1, n))
          /\ \A i \in (top.emitted + 1)..n : Mergeable(lits[i].tok) =>
               \E k \in 1..Len(new) :
                 /\ new[k].free /\ new[k].lvl = top.lvl
                 /\ Contains(new[k].val, FreeText(<<lits[i].lit>>))]_vars

\* C5: for unbalanced input processEntryTokens ends only when the scanner has
\* returned EOF, every token of the entry having been scanned.
C5_EndsAtEOF == tk.pc = "done" => (tk.eof /\ tk.pos = Len(tk.toks))

\* C6 as stated: at every point of the processing of an entry's tokens the
\* recursion depth is the number of opens minus the number of closes scanned.
C6_DepthAtEveryPoint == tk.pc = "run" => Depth = Opens - Closes

\* The brackets of the stream are balanced and well nested.
RECURSIVE Nesting(_, _)
Nesting(toks, d) ==
  IF toks = <<>> THEN d
  ELSE IF d < 0 THEN d
  ELSE Nesting(Tail(toks), d + Delta(Head(toks).tok))

WellNested(toks) == Nesting(toks, 0) = 0

\* C6 (amended): until the scanner first returns EOF, and as long as no
\* structural-close was scanned at depth 0 (which ends the processing), the
\* recursion depth is opens minus closes; an open enters one level, a close
\* returns one level; for balanced input the depth is 0 when the stream ends
\* and the first EOF ends the processing.
C6_DepthWhileScanning ==
  /\ []((tk.pc = "run" /\ ~tk.eof) => (Depth = Opens - Closes /\ Depth >= 0))
  /\ []((tk.eof /\ WellNested(tk.toks)) => tk.pc = "done")
  /\ [][/\ ScanOpen => Depth' = Depth + 1
        /\ ScanClose => Depth' = Depth - 1
        /\ (ScanSkip \/ ScanMerge \/ ScanAppend) => Depth' = Depth]_vars

\* A balanced stream with a nested level has been processed to its end.
C6_Witness ==
  /\ tk.pc = "done" /\ tk.eof /\ WellNested(tk.toks)
  /\ Opens > 0 /\ Opens = Closes

\* C7: within a level each accumulated token produces records in at most one
\* emitTokLits call.
C7_EmitAtMostOnce ==
  \A j, k \in 1..Len(tk.recs) :
    (tk.recs[j].idx # 0 /\ tk.recs[j].lvl = tk.recs[k].lvl
       /\ tk.recs[j].idx = tk.recs[k].idx)
      => tk.recs[j].call = tk.recs[k].call

\* A level has flushed twice, each flush emitting a token of its own.
C7_Witness ==
  \E j, k \in 1..Len(tk.recs) :
    /\ tk.recs[j].lvl = tk.recs[k].lvl
    /\ tk.recs[j].idx # 0 /\ tk.recs[k].idx # 0
    /\ tk.recs[j].call # tk.recs[k].call

\* The VALS records (path, name, kind, literal) among the calls.
IsName(r, path, name, valType, vals) ==
  /\ r.kind = "VALS" /\ r.path = path /\ r.name = name
  /\ r.valType = valType /\ r.val \in vals

InDict(name, kind, vals) ==
  \E k \in 1..Len(tk.dict) :
    tk.dict[k].name = name /\ tk.dict[k].kind = kind /\ tk.dict[k].val \in vals

\* C8: the entry body foo(bar=1, baz="hi") yields, with path ["foo"], the NAME
\* records (bar, INT, 1) and (baz, STRING, hi), both registered in the
\* Dictionary.
C8_ScenarioB ==
  (tk.toks = ScenarioB /\ tk.pc = "done") =>
    LET foo == <<<<"f", "o", "o">>>>
        bar == <<"b", "a", "r">>
        baz == <<"b", "a", "z">>
        one == {<<"1">>}
        hi == {<<"h", "i">>, <<"\"", "h", "i", "\"">>}
    IN /\ \E k \in 1..Len(tk.recs) : IsName(tk.recs[k], foo, bar, TokString("INT"), one)
       /\ \E k \in 1..Len(tk.recs) : IsName(tk.recs[k], foo, baz, TokString("STRING"), hi)
       /\ InDict(bar, TokString("INT"), one)
       /\ InDict(baz, TokString("STRING"), hi)

\* The VALS records of a sequence of calls, as (kind, name, val).
RECURSIVE ValsOf(_)
ValsOf(recs) ==
  IF recs = <<>> THEN <<>>
  ELSE (IF Head(recs).kind = "VALS"
          THEN <<[kind |-> Head(recs).valType, name |-> Head(recs).name,
                  val |-> Head(recs).val]>>
          ELSE <<>>)
       \o ValsOf(Tail(recs))

\* C9: a NAME record is emitted for a token exactly when AddDictEntry is
\* called with the same kind, name and literal; both happen exactly when the
\* cleansed candidate name is not empty, and a token without a clean name
\* still counts as emitted.
C9_NameIffDict ==
  /\ [](ValsOf(tk.recs) = tk.dict)
  /\ [][Emits =>
          LET top == Top(tk)
              lits == top.tokLits
              new == NewRecs
          IN \A i \in (top.emitted + 1)..Len(lits) :
               LET name == cleanseName(nameFromTokLits(SubSeq(lits, 1, i - 1)))
                   V == {k \in 1..Len(new) : new[k].kind = "VALS" /\ new[k].idx = i}
               IN /\ Cardinality({k \in 1..Len(new) :
                                    new[k].kind = "MIDS" /\ new[k].idx = i}) = 1
                  /\ (name # <<>>) <=> (V # {})
                  /\ \A k \in V : /\ new[k].name = name
                                  /\ new[k].valType = TokString(lits[i].tok)
                                  /\ new[k].val = lits[i].lit]_vars

\* Some token was registered under a name and another one was emitted
\* without any name.
C9_Witness ==
  /\ tk.dict # <<>>
  /\ \E j \in 1..Len(tk.recs) :
       /\ tk.recs[j].kind = "MIDS"
       /\ \A k \in 1..Len(tk.recs) :
            ~(tk.recs[k].kind = "VALS" /\ tk.recs[k].lvl = tk.recs[j].lvl
                /\ tk.recs[k].idx = tk.recs[j].idx)

\* ------------------------------------------------------------------
\* Properties of process and processEntry.

\* The numbers of the lines of f that start an entry: past the header, and a
\* line on which EntryStart is true (any line when EntryStart is nil).
BoundaryLines(f) ==
  {i \in 1..Len(f) : i > fmeta.HeaderSize /\ (fmeta.EntryStartNil \/ f[i].start)}

\* The last line of the run that starts at boundary b.
RunEnd(f, b) ==
  LET later == {c \in BoundaryLines(f) : c > b}
  IN IF later = {} THEN Len(f)
     ELSE (CHOOSE c \in later : \A d \in later : c <= d) - 1

\* The maximal runs of f, each from a boundary line to just before the next.
MaximalRuns(f) ==
  {[startLine |-> b, lines |-> SubSeq(f, b, RunEnd(f, b))] : b \in BoundaryLines(f)}

\* The entries processEntry has processed, as (startLine, lines).
Processed ==
  {[startLine |-> run.entries[k].startLine, lines |-> run.entries[k].lines] :
     k \in 1..Len(run.entries)}

\* C1: the entries processed are, in file order, exactly the maximal runs of
\* lines from a boundary line past the header to just before the next
\* boundary line or the end of the stream; the last one is flushed at the end.
C1_Segmentation ==
  /\ \A j, k \in 1..Len(run.entries) :
       j < k => run.entries[j].startLine < run.entries[k].startLine
  /\ (pc = "done" /\ err # "open") => Processed = MaximalRuns(file)
  /\ pc = "scan" =>
       /\ Processed = {e \in MaximalRuns(file) : e.startLine # entryStartLine}
       /\ entryStartLine > 0 =>
            [startLine |-> entryStartLine, lines |-> entryLines] \in MaximalRuns(file)

\* A file with a header line on which EntryStart is true, and two entries,
\* one of them of two lines, has been processed to its end.
C1_Witness ==
  /\ pc = "done" /\ err = "nil"
  /\ fmeta.HeaderSize >= 1 /\ ~fmeta.EntryStartNil
  /\ Len(file) >= 1 /\ file[1].start
  /\ Len(run.entries) >= 2
  /\ \E k \in 1..Len(run.entries) : Len(run.entries[k].lines) >= 2

\* The calls made for the entry that starts at line n.
PrintedFor(n) == \E k \in 1..Len(run.printed) : run.printed[k].startLine = n
FullFor(n) == \E k \in 1..Len(run.full) : run.full[k].startLine = n
PartsFor(n) == \E k \in 1..Len(run.parts) : run.parts[k].startLine = n
DictFor(n) == \E k \in 1..Len(run.dict) : run.dict[k].startLine = n

\* The processed entries whose first line EntryRE does not match.
Mismatched == {e \in Processed : e.lines[1].pre = 0}

\* C2 as stated: an entry whose first line EntryRE does not match produces
\* no emission of any kind, printed output included, under every run option.
C2_NoEmissionAtAll ==
  \A e \in Mismatched :
    /\ ~PrintedFor(e.startLine) /\ ~FullFor(e.startLine)
    /\ ~PartsFor(e.startLine) /\ ~DictFor(e.startLine)

\* C2 (amended): such an entry produces no emitEntryFull and no emitEntryPart
\* record and no dictionary registration under every run option; its original
\* lines are printed exactly when EmitOrig is set.
C2_NoRecordsButEcho ==
  \A e \in Mismatched :
    /\ ~FullFor(e.startLine) /\ ~PartsFor(e.startLine) /\ ~DictFor(e.startLine)
    /\ PrintedFor(e.startLine) <=> (EmitOrig # <<>>)

\* With EmitOrig set, an entry without a prefix match and one with a match
\* have both been processed.
C2_Witness ==
  /\ pc = "done" /\ EmitOrig # <<>>
  /\ \E e \in Mismatched : PrintedFor(e.startLine)
  /\ \E e \in Processed \ Mismatched : FullFor(e.startLine) /\ PartsFor(e.startLine)

\* ------------------------------------------------------------------
\* Properties of cleanseName.

\* The name is purely numeric: it consists only of digits.
PurelyNumeric(n) == n # <<>> /\ \A i \in 1..Len(n) : n[i] \in Digits

\* The rule of rejection as the claim states it, on the trimmed name.
StatedReject(n) ==
  \/ \E i \in 1..Len(n) : n[i] \in {"<", ">", "/", " "}
  \/ n \in {<<"t", "r", "u", "e">>, <<"f", "a", "l", "s", "e">>, <<"o", "k">>,
            <<"p", "i", "d">>, <<"u", "u", "i", "d">>}
  \/ (Len(n) >= 2 /\ n[1] = "0" /\ n[2] = "x")
  \/ PurelyNumeric(n)

\* C10: cleanseName returns the empty string exactly when the trimmed name
\* contains '<', '>', '/' or a space, is true, false, ok, pid or uuid, starts
\* with 0x or is purely numeric; otherwise it returns the trimmed name, so a
\* name with a digit among other characters is accepted.
C10_AcceptReject ==
  cn.pc = "ret" =>
    LET n == Trim(cn.name, {" ", "\t", "\n", "\""})
    IN n # <<>> =>
         /\ (cn.out = <<>>) <=> StatedReject(n)
         /\ ~StatedReject(n) => cn.out = n

\* ------------------------------------------------------------------
\* Properties of the prefix extraction.

\* The timestamp has the form YYYY-MM-DDTHH:MM:SS.sss.
TsForm(ts) ==
  /\ Len(ts) = 23
  /\ DigitsAt(ts, 1, 4) /\ ts[5] = "-" /\ DigitsAt(ts, 6, 2) /\ ts[8] = "-"
  /\ DigitsAt(ts, 9, 2) /\ ts[11] = "T" /\ DigitsAt(ts, 12, 2) /\ ts[14] = ":"
  /\ DigitsAt(ts, 15, 2) /\ ts[17] = ":" /\ DigitsAt(ts, 18, 2) /\ ts[20] = "."
  /\ DigitsAt(ts, 21, 3)

\* C11: for every first line that EntryRE matches, whatever the number (one
\* or more) of fractional-second digits, the timestamp is exactly 23
\* characters long, of the form YYYY-MM-DDTHH:MM:SS.sss.
C11_TimestampLength ==
  (px.pc = "ret" /\ px.res.matched) => TsForm(px.res.ts)

\* ------------------------------------------------------------------
\* Recursion depth.

\* C12: the recursion depth of processEntryTokens never exceeds a fixed
\* bound, however many unmatched structural-open tokens the entry holds:
\* once the bound is reached a structural-open token does not recurse.  A
\* bound that does not grow with the entry is exceeded by the entries
\* enumerated as soon as it is below their length, so the depth stays below
\* the number of tokens of the longest entry.
C12_BoundedRecursion == Depth < MaxToks

\* ------------------------------------------------------------------
\* Start offsets of the entries.

\* The bytes of the first n lines of the file, each with its newline.
RECURSIVE BytesBefore(_, _)
BytesBefore(f, n) ==
  IF n <= 0 THEN 0 ELSE BytesBefore(f, n - 1) + f[n].len + 1

\* C13: the startOffset of each processed entry is the sum of len(line) + 1
\* over all the lines of the file before the entry's first line, header
\* lines included, and the start offsets never decrease from one processed
\* entry to the next.
C13_StartOffsets ==
  /\ \A k \in 1..Len(run.entries) :
       run.entries[k].startOffset = BytesBefore(file, run.entries[k].startLine - 1)
  /\ \A k \in 1..(Len(run.entries) - 1) :
       run.entries[k].startOffset <= run.entries[k + 1].startOffset

\* Two entries processed after a header that is not empty.
C13_Witness ==
  /\ pc = "done" /\ fmeta.HeaderSize >= 1
  /\ Len(run.entries) >= 2
  /\ run.entries[1].startLine = fmeta.HeaderSize + 1
  /\ run.entries[1].startOffset > fmeta.HeaderSize
  /\ run.entries[2].startOffset > run.entries[1].startOffset + 1

\* ------------------------------------------------------------------
\* The standard output under concurrent fileProcessors.

\* Lines i and j of the standard output belong to the same emission.
SameEmission(i, j) ==
  /\ stdout[i].fp = stdout[j].fp
  /\ stdout[i].entry = stdout[j].entry
  /\ stdout[i].part = stdout[j].part

\* C14: the original text of an entry is written while the Run mutex is
\* held, and under every interleaving of the fileProcessors the lines of
\* one emission are not interleaved with those of another fileProcessor:
\* between two lines of an emission there are only lines of that emission.
C14_EmissionAtomic ==
  /\ \A p \in DOMAIN fps : fps[p].pc \in {"print", "unlock"} => m = p
  /\ \A i, j \in 1..Len(stdout) :
       (i < j /\ stdout[i].part = "orig" /\ SameEmission(i, j)) =>
         \A k \in i..j : SameEmission(i, k)

\* A fileProcessor printed the lines of an entry while another was waiting
\* for the mutex, and that one has written since.
C14_Witness ==
  /\ EmitOrig = <<"m", "u", "l", "t", "i">>
  /\ \E i, j \in 1..Len(stdout) :
       /\ i < j
       /\ stdout[i].part = "orig" /\ stdout[i].line = ParLines
       /\ stdout[j].part = "orig" /\ stdout[j].line = ParLines
       /\ stdout[i].fp # stdout[j].fp

\* ------------------------------------------------------------------
\* Properties of the cleansers.

\* FileMetaNS.Cleanser has returned.
CleansedNS == cl.pc = "ret" /\ cl.meta = "ns"

\* What precedes the banner, its first ']' blanked.
PreBlanked(pre) == IF pre # <<>> /\ pre[1] = "]" THEN <<" ">> \o Tail(pre) ELSE pre

\* What follows the banner in the buffer.
AfterBanner(bn) ==
  bn.post \o <<"\n">> \o (IF bn.more = <<>> THEN <<>> ELSE bn.more[1] \o <<"\n">>)

Quoted(text) == <<"\"">> \o text \o <<"\"">>

\* The buffer with the banner rewritten, and with the banner as it was.
BannerRewritten(bn) == PreBlanked(bn.pre) \o Quoted(bn.text) \o AfterBanner(bn)
BannerKept(bn) ==
  PreBlanked(bn.pre) \o Bar(bn.a) \o bn.text \o Bar(bn.b) \o AfterBanner(bn)

\* C15, as stated: the ns-server cleanser rewrites a banner whose text is
\* enclosed by runs of '=' on both sides, as ===PROGRESS REPORT=== with
\* three '=' a side, into the quoted text.
C15_AnyBannerRewritten ==
  (CleansedNS /\ cl.bn.a >= 3 /\ cl.bn.b >= 3 /\ cl.bn.text # <<>>) =>
    cl.buf = BannerRewritten(cl.bn)

\* C15, amended: the ns-server cleanser rewrites into the quoted text a
\* banner whose text is enclosed by runs of at least seven '=' on both
\* sides; a banner with a shorter run on a side is left as it is.
C15_LongBannerRewritten ==
  (CleansedNS /\ cl.bn.text # <<>>) =>
    IF cl.bn.a >= 7 /\ cl.bn.b >= 7
      THEN cl.buf = BannerRewritten(cl.bn)
      ELSE cl.buf = BannerKept(cl.bn)

\* =======PROGRESS REPORT======= has been cleansed.
C15_Witness ==
  /\ CleansedNS
  /\ cl.bn.a = 7 /\ cl.bn.b = 7 /\ cl.bn.text = ProgressReport
  /\ cl.bn.pre = <<>> /\ cl.bn.post = <<>> /\ cl.bn.more = <<>>
  /\ cl.buf = Quoted(ProgressReport) \o <<"\n">>

\* The entry body in the buffer handed to the cleanser: the lines joined by
\* newlines, without the newline that ends the buffer.
EntryBody == SubSeq(cl.in, 1, Len(cl.in) - 1)

\* C20: the cleanser of ns_server.fts.log replaces each embedded newline of
\* the newline-joined entry body with a space (and changes nothing else of
\* the body), so that the last word of a physical line and the first word
\* of the next stay apart.
C20_NewlinesBecomeSpaces ==
  (cl.pc = "ret" /\ cl.meta = "fts") =>
    /\ Len(cl.buf) >= Len(EntryBody)
    /\ \A k \in 1..Len(EntryBody) :
         cl.buf[k] = IF EntryBody[k] = "\n" THEN " " ELSE EntryBody[k]

\* ------------------------------------------------------------------
\* Paths of the nested levels.

\* The path of the i-th activation, innermost last, before and after a step.
PathAt(i) == pathOf(tk.array, tk.stack[i].path)
PathAfter(i) == pathOf(tk'.array, tk'.stack[i].path)

\* The candidate name of a level: the literal of the most recent IDENT or
\* STRING among its accumulated tokens, empty when there is none.
Candidate(tokLits) ==
  IF \E i \in 1..Len(tokLits) : tokLits[i].tok \in {"IDENT", "STRING"}
    THEN tokLits[CHOOSE i \in 1..Len(tokLits) :
                   /\ tokLits[i].tok \in {"IDENT", "STRING"}
                   /\ \A j \in (i + 1)..Len(tokLits) :
                        tokLits[j].tok \notin {"IDENT", "STRING"}].lit
    ELSE <<>>

\* The activations that a step neither starts nor ends.
Surviving ==
  1..(IF Len(tk.stack) < Len(tk'.stack) THEN Len(tk.stack) ELSE Len(tk'.stack))

\* C16: on a structural-open token the parent level's not-yet-emitted
\* tokens are emitted, with the parent's path, before any record of the
\* nested level; the nested level's path is the parent's followed by the
\* candidate name when that is not empty, the parent's otherwise; every
\* record carries the path of the level that emits it; and the path of a
\* level is the same sequence after each step, the return of a nested level
\* included, as before.
C16_StepPaths ==
  /\ \A i \in Surviving :
       /\ tk'.stack[i].lvl = tk.stack[i].lvl
       /\ PathAfter(i) = PathAt(i)
  /\ \A k \in 1..Len(NewRecs) :
       /\ NewRecs[k].lvl = Top(tk).lvl
       /\ NewRecs[k].path = PathAt(Len(tk.stack))
  /\ ScanOpen =>
       LET parent == Len(tk.stack)
           name == Candidate(tk.stack[parent].tokLits)
       IN /\ Len(tk'.stack) = parent + 1
          /\ tk'.stack[parent].emitted = Len(tk.stack[parent].tokLits)
          /\ Cardinality({k \in 1..Len(NewRecs) : NewRecs[k].kind = "MIDS"})
               = Len(tk.stack[parent].tokLits) - tk.stack[parent].emitted
          /\ \A k \in 1..Len(tk'.recs) : tk'.recs[k].lvl # Top(tk').lvl
          /\ PathAfter(parent + 1) =
               IF name # <<>> THEN Append(PathAt(parent), name) ELSE PathAt(parent)

C16_FlushAndPathScoping == [][C16_StepPaths]_vars

\* A nested level has returned to a parent whose path is not empty, a
\* sibling level was opened after it under another name, and the parent has
\* emitted since.
C16_Witness ==
  /\ tk.pc = "done"
  /\ \E i, j, k \in 1..Len(tk.recs) :
       /\ i < j /\ j < k
       /\ tk.recs[i].path = <<<<"a">>, <<"\"", "h", "\"">>>>
       /\ tk.recs[j].path = <<<<"a">>, <<"a">>>>
       /\ tk.recs[k].path = <<<<"a">>>>
       /\ tk.recs[k].lvl = 2

\* ------------------------------------------------------------------
\* The tokens emitted as values.

\* The kinds of the literal-leaf tokens, as emitEntryPart receives them:
\* those levelDelta maps to 0.
LeafKinds == {TokString(tok) : tok \in {t \in DOMAIN levelDelta : levelDelta[t] = 0}}

\* C17: emitTokLits emits a NAME record, and registers a Dictionary entry,
\* only for literal-leaf tokens; a mergeable token (an identifier, a
\* keyword, or a merged run of them) is never the literal value of a NAME
\* record.
C17_OnlyLeafValues ==
  /\ \A k \in 1..Len(tk.recs) :
       tk.recs[k].kind = "VALS" => tk.recs[k].valType \in LeafKinds
  /\ \A k \in 1..Len(tk.dict) : tk.dict[k].kind \in LeafKinds

\* ------------------------------------------------------------------
\* Errors of process.

\* The entry that was being accumulated when the scanner stopped.
Accumulating == [startLine |-> entryStartLine, lines |-> entryLines]

\* C18: process returns the error of os.Open, no entry having been processed,
\* or the error of the line scanner, and ends there; when the scanner fails
\* part-way, every entry recognized in the lines read before the failure,
\* the one being accumulated at the failure included, has been processed
\* when the error is returned.
C18_ErrorReturned ==
  /\ err # "nil" => pc = "done"
  /\ err = "open" => (run = RunInit /\ file = <<>> /\ currLine = 0)
  /\ (pc = "done" /\ err = "read") =>
       /\ Processed = MaximalRuns(file)
       /\ entryStartLine > 0 => Accumulating \in Processed

\* The scanner failed after two entries were recognized, the second of two
\* lines and still being accumulated.
C18_Witness ==
  /\ pc = "done" /\ err = "read"
  /\ Len(run.entries) = 2
  /\ entryStartLine > 0 /\ Len(entryLines) = 2
  /\ run.entries[2].startLine = entryStartLine
  /\ run.entries[2].lines = entryLines

\* ------------------------------------------------------------------
\* Skip tokens.

\* The stream without its skip tokens.
RECURSIVE WithoutSkips(_)
WithoutSkips(toks) ==
  IF toks = <<>> THEN <<>>
  ELSE (IF Head(toks).tok \in {"SHL", "SHR"} THEN <<>> ELSE <<Head(toks)>>)
       \o WithoutSkips(Tail(toks))

\* C19: a shift-operator token changes nothing but the scanner's position
\* (it is not appended, the depth, the records and the merge state stay as
\* they are), so the calls made for an entry are those made for the entry
\* without its skip tokens: mergeable tokens that only a skip token
\* separates are merged as if adjacent.
C19_SkipDiscarded ==
  /\ [][ScanSkip => tk' = [tk EXCEPT !.pos = tk.pos + 1]]_vars
  /\ [](tk.pc = "done" =>
          LET plain == runEntryTokens(TokInit(WithoutSkips(tk.toks)))
          IN tk.recs = plain.recs /\ tk.dict = plain.dict)

\* Two identifiers separated by << have been scanned and are one
\* accumulated token.
C19_Witness ==
  /\ tk.pc = "run" /\ tk.pos = 3
  /\ tk.toks[1].tok = "IDENT" /\ tk.toks[2].tok = "SHL" /\ tk.toks[3].tok = "IDENT"
  /\ Len(tk.stack) = 1
  /\ Len(Top(tk).tokLits) = 1
  /\ Top(tk).tokLits[1].lit = <<"a", " ", "a">>

====
